---------------------------- MODULE Spec2Model ----------------------------
(* A model of dna_analyzer.py: the reader, the normaliser, the statistics  *)
(* and the report of one run of the program, and the pure functions        *)
(* applied to bounded inputs.                                              *)
(*                                                                         *)
(* A Python str is a sequence of one-character strings.  A float that the  *)
(* program computes as 100.0 * n / d is the exact rational <<100*n, d>>.   *)
EXTENDS Integers, Sequences, FiniteSets

VARIABLES
    input,      \* args.input: "none" (no -i), "unreadable" or "readable" path
    file,       \* the text of the file args.input names
    stdin,      \* the text not yet read from standard input
    k,          \* args.kmer
    pc,         \* the position of the run
    lines,      \* interactive_mode's lines
    seq,        \* main's / interactive_mode's seq; the pure functions' argument
    seq_clean,  \* summary's seq_clean
    out,        \* what was printed, one entry per print call
    res         \* the value the last pure function applied returned

vars == <<input, file, stdin, k, pc, lines, seq, seq_clean, out, res>>

---------------------------------------------------------------------------
(* Bounds of the model. *)

MaxTextLen == 4     \* characters of a file / of standard input
MaxK == 5           \* the largest args.kmer
MaxNegK == 2        \* the smallest args.kmer is -MaxNegK
MaxSeqLen == 6      \* symbols of a sequence over {A,C,G,T}
MaxRawLen == 3      \* characters of a raw string

---------------------------------------------------------------------------
(* Characters. *)

Bases == {"A", "C", "G", "T"}

\* str.isspace characters of the model's alphabets
Whitespace == {" ", "\n"}

\* "LIG_ST" stands for the one character U+FB06, whose upper() is "ST"
TextChars == {"A", "c", ">", " ", "1", "\n"}
RawChars == {"A", "C", "G", "T", "a", "g", "N", "1", ">", " ", "LIG_ST"}

SeqsUpTo(S, n) == UNION {[1..m -> S] : m \in 0..n}

Min(a, b) == IF a < b THEN a ELSE b
Max(a, b) == IF a > b THEN a ELSE b

---------------------------------------------------------------------------
(* Python's str operations. *)

\* str.upper, one character: the characters it yields
LowerLetters ==
    <<"a", "b", "c", "d", "e", "f", "g", "h", "i", "j", "k", "l", "m",
      "n", "o", "p", "q", "r", "s", "t", "u", "v", "w", "x", "y", "z">>
UpperLetters ==
    <<"A", "B", "C", "D", "E", "F", "G", "H", "I", "J", "K", "L", "M",
      "N", "O", "P", "Q", "R", "S", "T", "U", "V", "W", "X", "Y", "Z">>

upper_char(c) ==
    IF \E i \in 1..26 : LowerLetters[i] = c
    THEN <<UpperLetters[CHOOSE i \in 1..26 : LowerLetters[i] = c]>>
    ELSE IF c = "LIG_ST" THEN <<"S", "T">>
    ELSE <<c>>

RECURSIVE upper(_)
upper(s) == IF s = <<>> THEN <<>> ELSE upper_char(Head(s)) \o upper(Tail(s))

RECURSIVE lstrip(_)
lstrip(s) ==
    IF s # <<>> /\ Head(s) \in Whitespace THEN lstrip(Tail(s)) ELSE s

RECURSIVE rstrip(_)
rstrip(s) ==
    IF s # <<>> /\ s[Len(s)] \in Whitespace
    THEN rstrip(SubSeq(s, 1, Len(s) - 1)) ELSE s

\* str.strip(): leading and trailing whitespace removed
strip(s) == rstrip(lstrip(s))

startswith(s, c) == Len(s) >= 1 /\ s[1] = c

\* sep.join(ls)
RECURSIVE join(_, _)
join(sep, ls) ==
    IF ls = <<>> THEN <<>>
    ELSE IF Len(ls) = 1 THEN ls[1]
    ELSE ls[1] \o sep \o join(sep, Tail(ls))

\* s[a:b] with Python's treatment of negative and out-of-range indices
Slice(s, a, b) ==
    LET n == Len(s)
        lo == IF a < 0 THEN Max(a + n, 0) ELSE Min(a, n)
        hi == IF b < 0 THEN Max(b + n, 0) ELSE Min(b, n)
    IN  IF lo < hi THEN SubSeq(s, lo + 1, hi) ELSE <<>>

\* s.count(c)
count(s, c) == Cardinality({i \in 1..Len(s) : s[i] = c})

\* the position of the first "\n" of s, 0 when there is none
FirstNewline(s) ==
    IF \E i \in 1..Len(s) : s[i] = "\n"
    THEN CHOOSE i \in 1..Len(s) : s[i] = "\n" /\ \A j \in 1..(i - 1) : s[j] # "\n"
    ELSE 0

\* iterating a text file: its lines, each with the newline that ends it
RECURSIVE FileLines(_)
FileLines(text) ==
    IF text = <<>> THEN <<>>
    ELSE LET n == FirstNewline(text)
         IN  IF n = 0 THEN <<text>>
             ELSE <<SubSeq(text, 1, n)>> \o FileLines(SubSeq(text, n + 1, Len(text)))

RECURSIVE MapStrip(_)
MapStrip(ls) == IF ls = <<>> THEN <<>> ELSE <<strip(Head(ls))>> \o MapStrip(Tail(ls))

NonEmpty(s) == s # <<>>
NotHeader(s) == ~startswith(s, ">")

---------------------------------------------------------------------------
(* The functions of dna_analyzer.py. *)

\* RC_MAP = str.maketrans("ACGT", "TGCA")
RC_MAP_Typo(c) ==
    CASE c = "A" -> "T" [] c = "C" -> "G" [] c = "G" -> "C" [] c = "T" -> "T"
      [] OTHER -> c

RC_MAP(c) ==
    CASE c = "A" -> "T" [] c = "C" -> "G" [] c = "G" -> "C" [] c = "T" -> "A"
      [] OTHER -> c

\* [line.strip() for line in f if line.strip()]
StrippedLines(text) == SelectSeq(MapStrip(FileLines(text)), NonEmpty)

\* the lines 23-28 of read_sequence_from_file, on the retained lines
SeqOfLines_NoFasta(ls) == join(<<>>, ls)

SeqOfLines(ls) ==
    IF ls # <<>> /\ startswith(ls[1], ">")
    THEN join(<<>>, SelectSeq(ls, NotHeader))
    ELSE join(<<>>, ls)

\* read_sequence_from_file: what it prints and what it returns
read_sequence_from_file(readable, text) ==
    IF ~readable
    THEN [printed |-> <<<<"error">>>>, ret |-> <<>>]
    ELSE [printed |-> <<>>, ret |-> SeqOfLines(StrippedLines(text))]

IsBase(c) == c \in Bases

IsBaseOrN(c) == c \in Bases \cup {"N"}
clean_seq_KeepsN(s) == SelectSeq(upper(s), IsBaseOrN)

clean_seq(s) == SelectSeq(upper(s), IsBase)

\* 100.0 * n / d
Percent(n, d) == <<100 * n, d>>
Zero == <<0, 1>>

gc_content(s) ==
    IF s = <<>> THEN Zero ELSE Percent(count(s, "G") + count(s, "C"), Len(s))

at_content_OnlyA(s) ==
    IF s = <<>> THEN Zero ELSE Percent(count(s, "A"), Len(s))

at_content(s) ==
    IF s = <<>> THEN Zero ELSE Percent(count(s, "A") + count(s, "T"), Len(s))

\* f"{x:.2f}": x in hundredths, the exact value rounded half to even
Fmt2(x) ==
    LET q == (100 * x[1]) \div x[2]
        r == (100 * x[1]) % x[2]
    IN  IF 2 * r > x[2] \/ (2 * r = x[2] /\ q % 2 = 1) THEN q + 1 ELSE q

RECURSIVE Reverse(_)
Reverse(s) == IF s = <<>> THEN <<>> ELSE Append(Reverse(Tail(s)), Head(s))

reverse_complement(s) == Reverse([i \in 1..Len(s) |-> RC_MAP(s[i])])

\* A Counter is the sequence of its <<key, count>> entries in insertion order.
Keys(counts) == {counts[i][1] : i \in 1..Len(counts)}

\* counts[key] += 1
Incr(counts, key) ==
    IF key \in Keys(counts)
    THEN [i \in 1..Len(counts) |->
            IF counts[i][1] = key THEN <<key, counts[i][2] + 1>> ELSE counts[i]]
    ELSE Append(counts, <<key, 1>>)

\* the loop of kmer_counts from index i on
RECURSIVE KmerLoop(_, _, _, _)
KmerLoop(s, kk, i, counts) ==
    IF i >= Len(s) - kk + 1 THEN counts
    ELSE LET kmer == Slice(s, i, i + kk)
         IN  KmerLoop(s, kk, i + 1,
                      IF Len(kmer) = kk THEN Incr(counts, kmer) ELSE counts)

kmer_counts_OffByOne(s, kk) ==
    LET RECURSIVE Loop(_, _)
        Loop(i, counts) ==
            IF i >= Len(s) - kk THEN counts
            ELSE LET kmer == Slice(s, i, i + kk)
                 IN  Loop(i + 1, IF Len(kmer) = kk THEN Incr(counts, kmer) ELSE counts)
    IN  Loop(0, <<>>)

kmer_counts(s, kk) == KmerLoop(s, kk, 0, <<>>)

\* the entries of cs other than the one at position i
Without(cs, i) == SubSeq(cs, 1, i - 1) \o SubSeq(cs, i + 1, Len(cs))

\* the position of the first entry of cs with the largest count
FirstLargest(cs) ==
    CHOOSE i \in 1..Len(cs) :
        /\ \A j \in 1..Len(cs) : cs[j][2] <= cs[i][2]
        /\ \A j \in 1..(i - 1) : cs[j][2] < cs[i][2]

LastLargest(cs) ==
    CHOOSE i \in 1..Len(cs) :
        /\ \A j \in 1..Len(cs) : cs[j][2] <= cs[i][2]
        /\ \A j \in (i + 1)..Len(cs) : cs[j][2] < cs[i][2]

\* Counter.most_common(n), n an integer: heapq.nlargest(n, items, key=count),
\* which is sorted(items, key=count, reverse=True)[:n], a stable sort
RECURSIVE most_common_LastTie(_, _)
most_common_LastTie(counts, n) ==
    IF n <= 0 \/ counts = <<>> THEN <<>>
    ELSE LET i == LastLargest(counts)
         IN  <<counts[i]>> \o most_common_LastTie(Without(counts, i), n - 1)

RECURSIVE most_common(_, _)
most_common(counts, n) ==
    IF n <= 0 \/ counts = <<>> THEN <<>>
    ELSE LET i == FirstLargest(counts)
         IN  <<counts[i]>> \o most_common(Without(counts, i), n - 1)

\* summary's default topn
topn == 5

\* lines 71-76 of summary: what the k-mer section prints
KmerSection_Always(s, kk, n) ==
    LET most == most_common(kmer_counts(s, kk), n)
    IN  <<<<"top", n, kk>>>> \o [i \in 1..Len(most) |-> <<"kmer", most[i][1], most[i][2]>>]

KmerSection(s, kk, n) ==
    LET counts == kmer_counts(s, kk)
        most == most_common(counts, n)
    IN  IF counts # <<>>
        THEN <<<<"top", n, kk>>>> \o
             [i \in 1..Len(most) |-> <<"kmer", most[i][1], most[i][2]>>]
        ELSE <<>>

\* summary(seq, k, topn): what it prints
summary_NoEmptyCheck(s, kk, n) ==
    LET c == clean_seq(s)
    IN  <<<<"banner">>, <<"length", Len(c)>>>> \o
        <<<<"gc", Fmt2(gc_content(c))>>, <<"at", Fmt2(at_content(c))>>,
          <<"rc", reverse_complement(c)>>>> \o
        KmerSection(c, kk, n) \o <<<<"footer">>>>

summary(s, kk, n) ==
    LET c == clean_seq(s)
    IN  <<<<"banner">>, <<"length", Len(c)>>>> \o
        IF Len(c) = 0
        THEN <<<<"no_bases">>>>
        ELSE <<<<"gc", Fmt2(gc_content(c))>>, <<"at", Fmt2(at_content(c))>>,
               <<"rc", reverse_complement(c)>>>> \o
             KmerSection(c, kk, n) \o <<<<"footer">>>>

---------------------------------------------------------------------------
(* One run of the program. *)

\* the inputs of the documentation's examples
ExampleTexts ==
    { <<">", "h", "e", "a", "d", "e", "r", "\n", "A", "C", "G", "\n", "T", "T", "\n">>,
      <<"1", "2", "3", "x", "y", "z">>,
      <<"a", "c", "g", "t", "A", "C", "G", "T">> }

Texts == SeqsUpTo(TextChars, MaxTextLen) \cup ExampleTexts
KValues == (0 - MaxNegK)..MaxK

Init ==
    /\ input \in {"none", "unreadable", "readable"}
    /\ file \in (IF input = "readable" THEN Texts ELSE {<<>>})
    /\ stdin \in (IF input = "none" THEN Texts ELSE {<<>>})
    /\ k \in KValues
    /\ pc = "main"
    /\ lines = <<>>
    /\ seq = <<>>
    /\ seq_clean = <<>>
    /\ out = <<>>
    /\ res = <<"none">>

\* main, args.input given: lines 99-104 up to the call of summary
MainFile_NoEmptyCheck ==
    /\ pc = "main"
    /\ input # "none"
    /\ LET r == read_sequence_from_file(input = "readable", file)
       IN  /\ seq' = r.ret
           /\ out' = out \o r.printed
           /\ pc' = "summary"
    /\ UNCHANGED <<input, file, stdin, k, lines, seq_clean, res>>

MainFile ==
    /\ pc = "main"
    /\ input # "none"
    /\ LET r == read_sequence_from_file(input = "readable", file)
       IN  /\ seq' = r.ret
           /\ IF r.ret = <<>>
              THEN /\ out' = out \o r.printed \o <<<<"no_sequence">>>>
                   /\ pc' = "done"
              ELSE /\ out' = out \o r.printed
                   /\ pc' = "summary"
    /\ UNCHANGED <<input, file, stdin, k, lines, seq_clean, res>>

\* main, no args.input: interactive_mode is entered and prints its prompt
MainInteractive ==
    /\ pc = "main"
    /\ input = "none"
    /\ out' = Append(out, <<"prompt">>)
    /\ lines' = <<>>
    /\ pc' = "input"
    /\ UNCHANGED <<input, file, stdin, k, seq, seq_clean, res>>

\* input(): the line read, without its newline, and what is left to read
InputLine(text) ==
    LET n == FirstNewline(text)
    IN  IF n = 0 THEN text ELSE SubSeq(text, 1, n - 1)

InputRest(text) ==
    LET n == FirstNewline(text)
    IN  IF n = 0 THEN <<>> ELSE SubSeq(text, n + 1, Len(text))

\* interactive_mode's loop: input() raises EOFError
InputEOF ==
    /\ pc = "input"
    /\ stdin = <<>>
    /\ seq' = join(<<"\n">>, lines)
    /\ pc' = "summary"
    /\ UNCHANGED <<input, file, stdin, k, lines, seq_clean, out, res>>

\* interactive_mode's loop: a blank line ends it
InputBlank ==
    /\ pc = "input"
    /\ stdin # <<>>
    /\ strip(InputLine(stdin)) = <<>>
    /\ stdin' = InputRest(stdin)
    /\ seq' = join(<<"\n">>, lines)
    /\ pc' = "summary"
    /\ UNCHANGED <<input, file, k, lines, seq_clean, out, res>>

\* interactive_mode's loop: a line is collected
InputAppend ==
    /\ pc = "input"
    /\ stdin # <<>>
    /\ strip(InputLine(stdin)) # <<>>
    /\ stdin' = InputRest(stdin)
    /\ lines' = Append(lines, InputLine(stdin))
    /\ UNCHANGED <<input, file, k, pc, seq, seq_clean, out, res>>

\* summary(seq, k), called by main or by interactive_mode
Summary ==
    /\ pc = "summary"
    /\ seq_clean' = clean_seq(seq)
    /\ out' = out \o summary(seq, k, topn)
    /\ pc' = "done"
    /\ UNCHANGED <<input, file, stdin, k, lines, seq, res>>

Next ==
    \/ MainFile
    \/ MainInteractive
    \/ InputEOF
    \/ InputBlank
    \/ InputAppend
    \/ Summary

Spec == Init /\ [][Next]_vars

---------------------------------------------------------------------------
(* The pure functions, applied to every bounded argument. *)

\* the documentation's example, and two sequences with more than topn
\* distinct 2-mers
ExampleSeqs ==
    { <<"A", "C", "G", "T", "A", "C", "G", "T">>,
      <<"A", "A", "C", "C", "G", "G", "T", "T", "A">>,
      <<"A", "C", "A", "C", "A", "C", "G", "T", "G", "T", "A">> }

DnaSeqs == SeqsUpTo(Bases, MaxSeqLen) \cup ExampleSeqs
RawSeqs == SeqsUpTo(RawChars, MaxRawLen) \cup ExampleTexts

PureInit ==
    /\ input = "none"
    /\ file = <<>>
    /\ stdin = <<>>
    /\ k = 3
    /\ pc = "pure"
    /\ lines = <<>>
    /\ seq \in DnaSeqs \cup RawSeqs
    /\ seq_clean = <<>>
    /\ out = <<>>
    /\ res = <<"none">>

Return(r) ==
    /\ pc = "pure"
    /\ res' = r
    /\ UNCHANGED <<input, file, stdin, k, pc, lines, seq, seq_clean, out>>

\* a function is applied to the argument, once
Apply(r) == res[1] = "none" /\ Return(r)

ApplyCleanSeq == Apply(<<"clean_seq", clean_seq(seq)>>)

ApplyCleanSeqAgain ==
    /\ res[1] = "clean_seq"
    /\ Return(<<"clean_seq2", res[2], clean_seq(res[2])>>)

ApplyReverseComplement == Apply(<<"rc", reverse_complement(seq)>>)

ApplyReverseComplementAgain ==
    /\ res[1] = "rc"
    /\ Return(<<"rc2", res[2], reverse_complement(res[2])>>)

ApplyContent == Apply(<<"content", gc_content(seq), at_content(seq)>>)

ApplyKmerCounts == \E kk \in KValues : Apply(<<"kmer_counts", kk, kmer_counts(seq, kk)>>)

ApplyKmerSection ==
    \E kk \in KValues : Apply(<<"kmer_section", kk, KmerSection(seq, kk, topn)>>)

PureNext ==
    \/ ApplyCleanSeq
    \/ ApplyCleanSeqAgain
    \/ ApplyReverseComplement
    \/ ApplyReverseComplementAgain
    \/ ApplyContent
    \/ ApplyKmerCounts
    \/ ApplyKmerSection

PureSpec == PureInit /\ [][PureNext]_vars

---------------------------------------------------------------------------
(* What the claims speak of. *)

SetMin(S) == CHOOSE x \in S : \A y \in S : x <= y
SetMax(S) == CHOOSE x \in S : \A y \in S : x >= y

IsDna(s) == \A i \in 1..Len(s) : s[i] \in {"A", "C", "G", "T"}

\* the tags of what was printed, the prompt of interactive mode left out
Tags(o) == [i \in 1..Len(o) |-> o[i][1]]
IsReportLine(e) == e[1] # "prompt"
ReportTags(o) == Tags(SelectSeq(o, IsReportLine))

StatTags == {"gc", "at", "rc", "top", "kmer"}
NoStats(o) == \A i \in 1..Len(o) : o[i][1] \notin StatTags

LengthZeroThenNotice(o) ==
    \E i \in 1..(Len(o) - 1) :
        /\ o[i][1] = "length" /\ o[i][2] = 0
        /\ o[i + 1][1] = "no_bases"

\* The reader as the documentation words it.  The line of a text that starts
\* at position a, without its newline:
LineFrom(text, a) ==
    LET ends == {j \in a..Len(text) : text[j] = "\n"}
    IN  SubSeq(text, a, IF ends = {} THEN Len(text) ELSE SetMin(ends) - 1)

\* a line with its trailing (and, if leading, its leading) blanks removed
Trimmed(l, leading) ==
    LET ink == {i \in 1..Len(l) : l[i] # " " /\ l[i] # "\n"}
    IN  IF ink = {} THEN <<>>
        ELSE SubSeq(l, IF leading THEN SetMin(ink) ELSE 1, SetMax(ink))

\* the trimmed lines that are not empty, from position a on
RECURSIVE Retained(_, _, _)
Retained(text, a, leading) ==
    IF a > Len(text) THEN <<>>
    ELSE LET l == LineFrom(text, a)
             t == Trimmed(l, leading)
         IN  (IF t = <<>> THEN <<>> ELSE <<t>>) \o
             Retained(text, a + Len(l) + 1, leading)

RECURSIVE Flatten(_, _)
Flatten(ls, dropHeaders) ==
    IF ls = <<>> THEN <<>>
    ELSE (IF dropHeaders /\ ls[1][1] = ">" THEN <<>> ELSE ls[1]) \o
         Flatten(Tail(ls), dropHeaders)

DocumentedRead(text, leading) ==
    LET ls == Retained(text, 1, leading)
    IN  Flatten(ls, ls # <<>> /\ ls[1][1] = ">")

\* the k-mers of s, read off its windows
Windows(s, kk) == 1..(Len(s) - kk + 1)
Window(s, kk, i) == SubSeq(s, i, i + kk - 1)
DistinctKmers(s, kk) == {Window(s, kk, i) : i \in Windows(s, kk)}
Occurrences(s, w) == Cardinality({i \in Windows(s, Len(w)) : Window(s, Len(w), i) = w})
FirstSeen(s, w) == SetMin({i \in Windows(s, Len(w)) : Window(s, Len(w), i) = w})

---------------------------------------------------------------------------
(* C1: interactive mode hands summary the cleaned sequence that            *)
(* read_sequence_from_file yields for the same lines; the lines of a       *)
(* header never enter the sequence.                                        *)
C1_InteractiveAsFile ==
    (pc = "done" /\ input = "none") =>
        seq_clean = clean_seq(read_sequence_from_file(TRUE, join(<<"\n">>, lines)).ret)

(* C2, as stated: every input without a base after cleaning, a file or     *)
(* typed, prints the length 0, then the notice, and no statistics.         *)
C2_AlwaysLengthZeroNotice ==
    (pc = "done" /\ input # "unreadable" /\ clean_seq(seq) = <<>>) =>
        LengthZeroThenNotice(out) /\ NoStats(out)

(* C2, amended: an input without a base after cleaning prints no           *)
(* statistics; typed, or read from a file the reader returns a non-empty   *)
(* string for, it prints the length 0 and then the notice, and nothing     *)
(* more; a file the reader returns the empty string for prints only the    *)
(* "no sequence found" message.                                            *)
C2_NoBasesReport ==
    (pc = "done" /\ input # "unreadable" /\ clean_seq(seq) = <<>>) =>
        /\ NoStats(out)
        /\ IF input = "readable" /\ DocumentedRead(file, TRUE) = <<>>
           THEN Tags(out) = <<"no_sequence">>
           ELSE /\ ReportTags(out) = <<"banner", "length", "no_bases">>
                /\ LengthZeroThenNotice(out)

C2_Witness ==
    /\ pc = "done"
    /\ input = "readable"
    /\ file = <<"1", "2", "3", "x", "y", "z">>
    /\ LengthZeroThenNotice(out)

(* C5, as stated: the reader strips the trailing whitespace of each line,  *)
(* drops the empty lines and, when the first retained line starts with     *)
(* '>', returns the retained lines that do not start with '>',             *)
(* concatenated in order, otherwise all retained lines concatenated.       *)
C5_ReadStripsTrailing ==
    (input = "readable" /\ pc # "main") => seq = DocumentedRead(file, FALSE)

(* C5, amended: the same with the leading and the trailing whitespace of   *)
(* each line stripped.                                                     *)
C5_ReadStripsBothEnds ==
    (input = "readable" /\ pc # "main") => seq = DocumentedRead(file, TRUE)

C5_Witness ==
    /\ input = "readable"
    /\ pc # "main"
    /\ Len(file) = 15
    /\ seq = <<"A", "C", "G", "T", "T">>

(* C6, as stated: a run whose cleaned sequence is not empty prints the     *)
(* length, GC%, AT%, the reverse complement and the top-N k-mer list, in   *)
(* this order, whatever k is.                                              *)
C6_AlwaysKmerSection ==
    (pc = "done" /\ clean_seq(seq) # <<>>) =>
        /\ Len(ReportTags(out)) >= 7
        /\ SubSeq(ReportTags(out), 1, 7) =
               <<"banner", "length", "gc", "at", "rc", "top", "kmer">>

(* C6, amended: such a run prints the length, GC%, AT% and the reverse     *)
(* complement in this order, then the top-N k-mer list when                *)
(* 0 <= k <= length, and no k-mer section at all when k < 0 or k > length. *)
C6_ReportOrder ==
    (pc = "done" /\ clean_seq(seq) # <<>>) =>
        ReportTags(out) =
            <<"banner", "length", "gc", "at", "rc">> \o
            (IF 0 <= k /\ k <= Len(clean_seq(seq))
             THEN <<"top">> \o
                  [i \in 1..Min(topn, Cardinality(DistinctKmers(clean_seq(seq), k)))
                     |-> "kmer"]
             ELSE <<>>) \o
            <<"footer">>

C6_Witness ==
    /\ pc = "done"
    /\ Len(seq_clean) >= 3
    /\ k = 2
    /\ \E i \in 1..Len(out) : out[i][1] = "kmer" /\ out[i][3] = 2

(* C7: a file that cannot be read makes the run print the error and the    *)
(* "no sequence found" message and end; summary is never called and no     *)
(* report line is printed.                                                 *)
C7_UnreadableFile ==
    input = "unreadable" =>
        /\ pc \in {"main", "done"}
        /\ pc = "done" => (Tags(out) = <<"error", "no_sequence">> /\ seq = <<>>)

C7_Witness == input = "unreadable" /\ pc = "done" /\ Len(out) = 2

---------------------------------------------------------------------------
(* The claims about the pure functions, under PureSpec. *)

RECURSIVE SumCounts(_)
SumCounts(counts) ==
    IF counts = <<>> THEN 0 ELSE Head(counts)[2] + SumCounts(Tail(counts))

(* C3, as stated: for every sequence s over {A,C,G,T} and every integer k, *)
(* the counts of kmer_counts(s, k) sum to max(0, len(s) - k + 1), and the  *)
(* table is empty when k > len(s).                                         *)
C3_SumForEveryK ==
    (res[1] = "kmer_counts" /\ IsDna(seq)) =>
        /\ SumCounts(res[3]) = Max(0, Len(seq) - res[2] + 1)
        /\ res[2] > Len(seq) => res[3] = <<>>

(* C3, amended: the same for every k >= 0; for k < 0 the table is empty.   *)
C3_SumForNonNegativeK ==
    (res[1] = "kmer_counts" /\ IsDna(seq)) =>
        /\ res[2] >= 0 => SumCounts(res[3]) = Max(0, Len(seq) - res[2] + 1)
        /\ (res[2] > Len(seq) \/ res[2] < 0) => res[3] = <<>>

C3_Witness ==
    /\ res[1] = "kmer_counts"
    /\ IsDna(seq)
    /\ res[2] = 2
    /\ Len(seq) = 5
    /\ Len(res[3]) = 2

(* C4: the k-mer list summary prints for a cleaned sequence s, k >= 1 and  *)
(* N = 5 has min(N, number of distinct k-mers) entries, each a k-mer of s  *)
(* with the number of its occurrences, ordered by count descending and,    *)
(* among equal counts, by first occurrence in s; every k-mer left out      *)
(* comes after every listed one in that order.                             *)
C4_TopKmers ==
    (res[1] = "kmer_section" /\ IsDna(seq) /\ res[2] >= 1) =>
        LET kk == res[2]
            all == DistinctKmers(seq, kk)
            n == Min(topn, Cardinality(all))
            Before(w, c, v, d) ==
                c > d \/ (c = d /\ FirstSeen(seq, w) < FirstSeen(seq, v))
        IN  IF all = {} THEN res[3] = <<>>
            ELSE /\ Len(res[3]) = n + 1
                 /\ res[3][1][1] = "top" /\ res[3][1][2] = topn /\ res[3][1][3] = kk
                 /\ \A i \in 2..(n + 1) :
                        /\ res[3][i][1] = "kmer"
                        /\ res[3][i][2] \in all
                        /\ res[3][i][3] = Occurrences(seq, res[3][i][2])
                 /\ \A i \in 2..(n + 1) : \A j \in (i + 1)..(n + 1) :
                        Before(res[3][i][2], res[3][i][3], res[3][j][2], res[3][j][3])
                 /\ \A v \in all :
                        (\A i \in 2..(n + 1) : res[3][i][2] # v) =>
                            \A i \in 2..(n + 1) :
                                Before(res[3][i][2], res[3][i][3], v, Occurrences(seq, v))

\* more than N distinct k-mers, one left out that ties with the last listed,
\* and a listed pair whose order differs from the order of first occurrence
C4_Witness ==
    /\ res[1] = "kmer_section"
    /\ IsDna(seq)
    /\ res[2] = 2
    /\ Len(res[3]) = topn + 1
    /\ \E v \in DistinctKmers(seq, 2) :
           /\ \A i \in 2..(topn + 1) : res[3][i][2] # v
           /\ Occurrences(seq, v) = res[3][topn + 1][3]
    /\ \E i \in 2..topn :
           FirstSeen(seq, res[3][i][2]) > FirstSeen(seq, res[3][i + 1][2])

\* the complement of a base
Complement(c) ==
    IF c = "A" THEN "T" ELSE IF c = "T" THEN "A" ELSE IF c = "C" THEN "G" ELSE "C"

(* C8: for every sequence s over {A,C,G,T}, reverse_complement(s) has the  *)
(* length of s and, at position i, the complement of the symbol of s at    *)
(* position len(s) + 1 - i, and reverse_complement of it is s again.       *)
C8_ReverseComplementInvolution ==
    IsDna(seq) =>
        /\ res[1] \in {"rc", "rc2"} =>
               /\ Len(res[2]) = Len(seq)
               /\ \A i \in 1..Len(seq) : res[2][i] = Complement(seq[Len(seq) + 1 - i])
        /\ res[1] = "rc2" => res[3] = seq

C8_Witness ==
    /\ res[1] = "rc2"
    /\ IsDna(seq)
    /\ Len(seq) >= 4
    /\ res[2] # seq
    /\ res[3] = seq

\* a character no upper-casing turns into a base
NeverABase(c) == c \notin {"A", "C", "G", "T", "a", "c", "g", "t", "LIG_ST"}

(* C9: for every raw string s, clean_seq(s) holds only symbols of          *)
(* {A,C,G,T}, is empty when s is empty or has no character that upper-     *)
(* cases to a base, and clean_seq(clean_seq(s)) is clean_seq(s).           *)
C9_CleanSeqIdempotent ==
    /\ res[1] \in {"clean_seq", "clean_seq2"} =>
           /\ IsDna(res[2])
           /\ (\A i \in 1..Len(seq) : NeverABase(seq[i])) => res[2] = <<>>
    /\ res[1] = "clean_seq2" => res[3] = res[2]

C9_Witness ==
    /\ res[1] = "clean_seq2"
    /\ \E i \in 1..Len(seq) : seq[i] = "g"
    /\ \E i \in 1..Len(seq) : seq[i] = "N"
    /\ res[2] # <<>>
    /\ res[3] = res[2]

(* C10: for every non-empty sequence s over {A,C,G,T}, gc_content(s) +     *)
(* at_content(s) is 100, the counts of G, C, A and T adding up to len(s);  *)
(* for the empty sequence both are 0.0.                                    *)
C10_ContentSum ==
    (res[1] = "content" /\ IsDna(seq)) =>
        IF seq = <<>>
        THEN res[2] = <<0, 1>> /\ res[3] = <<0, 1>>
        ELSE /\ res[2][2] = Len(seq) /\ res[3][2] = Len(seq)
             /\ res[2][1] + res[3][1] = 100 * Len(seq)
             /\ res[2][1] * res[3][2] + res[3][1] * res[2][2]
                    = 100 * res[2][2] * res[3][2]

C10_Witness ==
    /\ res[1] = "content"
    /\ IsDna(seq)
    /\ Len(seq) = 3
    /\ res[2] = <<100, 3>>
    /\ res[3] = <<200, 3>>

=============================================================================
